---- MODULE Spec2Model ----
(***************************************************************************)
(* falcon-idempotency: the idempotency middlewares of                      *)
(* falcon_idempotency/middlewares.py, run by the host framework (falcon)   *)
(* as tests/conftest.py wires them: falcon.API(middleware=[middleware])    *)
(* plus add_error_handler(SentinelException, middleware.handler).          *)
(*                                                                         *)
(* One request is one pass through the framework's hooks:                  *)
(*   process_request -> routing, process_resource -> responder             *)
(*   -> (SentinelException: error handler) -> process_response -> done.    *)
(* process_response is queued for a request only once its process_request  *)
(* has returned (falcon.API's default, dependent middleware), and a queued *)
(* process_response runs whatever happened after that (the hook's          *)
(* request_succeeded argument says which).                                 *)
(*                                                                         *)
(* The cache is redis: get(key) and setex(key, value, ttl), each atomic,   *)
(* each of which may fail.  Requests are concurrent up to MaxInFlight.     *)
(***************************************************************************)
EXTENDS Naturals, Sequences, FiniteSets, TLC

VARIABLES mw, cache, now, ticks, slots, started, nextId,
          stored, missStore

vars == <<mw, cache, now, ticks, slots, started, nextId,
          stored, missStore>>

(***************************************************************************)
(* Bounds of the model.                                                    *)
(***************************************************************************)
MaxInFlight == 2
MaxRequests == 3
MaxTicks == 2

(***************************************************************************)
(* Python values.                                                          *)
(***************************************************************************)
\* Python's None, for a header that is absent, an argument not given, an
\* attribute that is missing.
None == "<None>"

\* idempotency_ttl's default value.
DefaultTTL == 3600

\* A TTL passed explicitly to the constructor.
GivenTTL == 2

\* Mutant of Truthy: `if idempotency_key is not None:`.
Truthy_NotNone(v) == v # None

\* `if idempotency_key:` -- the truth value of an optional string.
Truthy(v) == v # None /\ v # ""

Methods == {"POST", "DELETE", "GET"}

\* What request.get_header("idempotency-key") can return.
HeaderValues == {None, "", "A", "B"}

(***************************************************************************)
(* Resources.  "none" is a request that matched no route (resource is      *)
(* None); the others are resource objects.  "truthy" declares both flags   *)
(* with the value 1; "streamer" declares both flags and answers with an    *)
(* open stream attached to the response.                                   *)
(***************************************************************************)
Resources == {"none", "vanilla", "postonly", "deleteonly", "truthy", "streamer"}

\* getattr(resource, "idempotent_post", None)
idempotent_post(resource) ==
    CASE resource \in {"postonly", "streamer"} -> "True"
      [] resource = "truthy" -> "1"
      [] OTHER -> None

\* getattr(resource, "idempotent_delete", None)
idempotent_delete(resource) ==
    CASE resource \in {"deleteonly", "streamer"} -> "True"
      [] resource = "truthy" -> "1"
      [] OTHER -> None

(***************************************************************************)
(* Responses: status, the trans_id header (0: not set), body, and whether  *)
(* an open stream is attached.                                             *)
(***************************************************************************)
DefaultResponse == [status |-> 200, trans_id |-> 0, body |-> "", stream |-> FALSE]

NoResponse == [status |-> 0, trans_id |-> 0, body |-> "", stream |-> FALSE]

\* The responder of the routed resource: on_post and on_delete set a fresh
\* trans_id header, on_get sets the body; no route answers 404.
RespondWith(resource, method, id) ==
    CASE resource = "none" ->
           [status |-> 404, trans_id |-> 0, body |-> "", stream |-> FALSE]
      [] resource = "streamer" ->
           [status |-> 200, trans_id |-> 0, body |-> "", stream |-> TRUE]
      [] method = "GET" ->
           [status |-> 200, trans_id |-> 0, body |-> "hello", stream |-> FALSE]
      [] OTHER ->
           [status |-> 200, trans_id |-> id, body |-> "", stream |-> FALSE]

\* Whether the responder draws a fresh uuid.
DrawsUuid(resource, method) ==
    resource \notin {"none", "streamer"} /\ method \in {"POST", "DELETE"}

(***************************************************************************)
(* pickle: a response is stored as the tuple of its fields; a response     *)
(* that holds an open stream cannot be pickled.                            *)
(***************************************************************************)
Picklable(response) == ~response.stream

pickle_dumps(response) ==
    <<response.status, response.trans_id, response.body, response.stream>>

\* Mutant of pickle_loads: the headers are not restored.
pickle_loads_NoHeaders(data) ==
    [status |-> data[1], trans_id |-> 0, body |-> data[3], stream |-> data[4]]

pickle_loads(data) ==
    [status |-> data[1], trans_id |-> data[2], body |-> data[3], stream |-> data[4]]

(***************************************************************************)
(* _BaseKlass                                                              *)
(***************************************************************************)
\* Mutant of redis_key: the method is left out of the key.
redis_key_NoMethod(method, idempotency_key) ==
    "FALCON_REQUEST_" \o idempotency_key

\* Mutant of redis_key: the header value is left out of the key.
redis_key_NoHeader(method, idempotency_key) ==
    "FALCON_REQUEST_" \o method

\* redis_key.format(idempotency_key=..., method=request.method)
redis_key(method, idempotency_key) ==
    "FALCON_REQUEST_" \o method \o "_" \o idempotency_key

\* The redis_conn property: the connection passed in, or one made from the
\* url on first use.
redis_conn(m) ==
    IF m.conn = None /\ Truthy(m.url) THEN "from_url" ELSE m.conn

\* redis-py: a key set with setex is gone once its ttl has run out.
Live(c, k, t) == k \in DOMAIN c /\ t < c[k].expiry

\* redis get: the value, or None.
CacheGet(c, k, t) == IF Live(c, k, t) THEN c[k].data ELSE None

\* Mutant of CacheSetex: set only if the key holds nothing (SET NX).
CacheSetex_IfAbsent(c, k, data, ttl, t) ==
    IF k \in DOMAIN c THEN c
    ELSE [x \in DOMAIN c \cup {k} |->
            IF x = k THEN [data |-> data, expiry |-> t + ttl] ELSE c[x]]

\* redis setex: the value replaces what the key held and expires ttl from now.
CacheSetex(c, k, data, ttl, t) ==
    [x \in DOMAIN c \cup {k} |->
        IF x = k THEN [data |-> data, expiry |-> t + ttl] ELSE c[x]]

\* Keys whose ttl has run out are removed.
Purge(c, t) == [x \in {k \in DOMAIN c : t < c[k].expiry} |-> c[x]]

\* History kept beside the cache, for stating properties: per key, who stored
\* the entry last (by), the response stored when the key held no entry (first)
\* and the response stored last (last).  It follows the cache's keys.
Restrict(f, c) == [x \in (DOMAIN f) \cap (DOMAIN c) |-> f[x]]

Put(f, k, v) == [x \in DOMAIN f \cup {k} |-> IF x = k THEN v ELSE f[x]]

EmptyMap == [x \in {} |-> 0]

\* Mutant of Applies: the flag is tested for truth (`if getattr(...):`).
Applies_Truthy(method, resource) ==
    \/ method = "POST" /\ Truthy(idempotent_post(resource))
    \/ method = "DELETE" /\ Truthy(idempotent_delete(resource))

\* Mutant of Applies: either flag enables either method.
Applies_AnyFlag(method, resource) ==
    /\ method \in {"POST", "DELETE"}
    /\ \/ idempotent_post(resource) = "True"
       \/ idempotent_delete(resource) = "True"

(***************************************************************************)
(* IdempotencyMiddleware.process_resource's condition.                     *)
(***************************************************************************)
Applies(method, resource) ==
    \/ method = "POST" /\ idempotent_post(resource) = "True"
    \/ method = "DELETE" /\ idempotent_delete(resource) = "True"

(***************************************************************************)
(* Requests in flight.                                                     *)
(***************************************************************************)
Slots == 1..MaxInFlight

Idle == [pc |-> "idle", method |-> "GET", key |-> None, resource |-> "none",
         context |-> EmptyMap, resp |-> NoResponse, succeeded |-> FALSE,
         queued |-> FALSE, error |-> "none",
         ran |-> 0, replayed |-> FALSE, gets |-> 0, sets |-> 0,
         hitBy |-> <<>>, sawFirst |-> NoResponse, afterTTL |-> FALSE,
         getFailed |-> FALSE, sawLast |-> NoResponse,
         getKey |-> None, setKey |-> None]

InFlight == {s \in Slots : slots[s].pc # "idle"}

Init ==
    /\ mw = [state |-> "new", variant |-> "simple", url |-> None, conn |-> None,
             ttl |-> DefaultTTL, ttl_arg |-> <<>>]
    /\ cache = EmptyMap
    /\ now = 0
    /\ ticks = 0
    /\ slots = [s \in Slots |-> Idle]
    /\ started = 0
    /\ nextId = 1
    /\ stored = EmptyMap
    /\ missStore = EmptyMap

\* Mutant of Construct: the check for a cache source is missing.
Construct_NoCheck(variant, redis_url, redis_connection, idempotency_ttl) ==
    /\ mw.state = "new"
    /\ mw' = [state |-> "ok",
              variant |-> variant,
              url |-> redis_url,
              conn |-> redis_connection,
              ttl |-> IF idempotency_ttl = <<>> THEN DefaultTTL
                      ELSE idempotency_ttl[1],
              ttl_arg |-> idempotency_ttl]
    /\ UNCHANGED <<cache, now, ticks, slots, started, nextId, stored, missStore>>

(***************************************************************************)
(* _BaseKlass.__init__, called through either middleware class.            *)
(***************************************************************************)
Construct(variant, redis_url, redis_connection, idempotency_ttl) ==
    /\ mw.state = "new"
    /\ mw' = [state |-> IF redis_connection = None /\ redis_url = None
                        THEN "error" ELSE "ok",
              variant |-> variant,
              url |-> redis_url,
              conn |-> redis_connection,
              ttl |-> IF idempotency_ttl = <<>> THEN DefaultTTL
                      ELSE idempotency_ttl[1],
              ttl_arg |-> idempotency_ttl]
    /\ UNCHANGED <<cache, now, ticks, slots, started, nextId,
                   stored, missStore>>

\* A request arrives and takes the first free slot; the server handles at
\* most lim requests at once.
Start(method, key, resource, lim) ==
    LET s == CHOOSE x \in Slots \ InFlight : \A y \in Slots \ InFlight : x <= y IN
    /\ mw.state = "ok"
    /\ InFlight # Slots
    /\ started < MaxRequests
    /\ Cardinality(InFlight) < lim
    /\ slots' = [slots EXCEPT ![s] =
                   [Idle EXCEPT !.pc = "request", !.method = method, !.key = key,
                                !.resource = resource, !.resp = DefaultResponse]]
    /\ started' = started + 1
    /\ UNCHANGED <<mw, cache, now, ticks, nextId,
                   stored, missStore>>

\* Mutant of Simple_process_request: the entry is looked up under a key that
\* also names the resource.
Simple_process_request_PerResource(s, ok, missPc, failPc, queuedAfterRaise) ==
    LET r == slots[s]
        k == redis_key(r.method, r.key)
        data == CacheGet(cache, redis_key(r.method, r.key \o "@" \o r.resource), now)
    IN  IF ~Truthy(r.key)
        THEN /\ slots' = [slots EXCEPT ![s].pc = missPc, ![s].queued = TRUE]
             /\ UNCHANGED mw
        ELSE /\ mw' = [mw EXCEPT !.conn = redis_conn(mw)]
             /\ LET seen == [r EXCEPT
                      !.gets = r.gets + 1,
                      !.afterTTL = k \in DOMAIN missStore /\ now >= missStore[k] + mw.ttl,
                      !.sawFirst = IF k \in DOMAIN stored THEN stored[k].first
                                   ELSE NoResponse,
                      !.sawLast = IF k \in DOMAIN stored THEN stored[k].last
                                  ELSE NoResponse,
                      !.getKey = k]
                IN  slots' = [slots EXCEPT ![s] =
                      IF ~ok \/ redis_conn(mw) = None
                      THEN [seen EXCEPT !.pc = failPc, !.error = "cache",
                                        !.getFailed = TRUE,
                                        !.queued = queuedAfterRaise]
                      ELSE IF data # None
                      THEN [seen EXCEPT !.pc = "handler",
                                        !.context = Put(EmptyMap, r.key, pickle_loads(data)),
                                        !.hitBy = stored[k].by,
                                        !.queued = queuedAfterRaise]
                      ELSE [seen EXCEPT !.pc = missPc, !.queued = TRUE]]

(***************************************************************************)
(* SimpleIdempotencyMiddleware.process_request on slot s.  ok says whether *)
(* the cache answers; missPc is where the request goes on when nothing is  *)
(* raised, failPc where it goes when the cache call raises.                *)
(***************************************************************************)
Simple_process_request(s, ok, missPc, failPc, queuedAfterRaise) ==
    LET r == slots[s]
        k == redis_key(r.method, r.key)
        data == CacheGet(cache, k, now)
    IN  IF ~Truthy(r.key)
        THEN /\ slots' = [slots EXCEPT ![s].pc = missPc, ![s].queued = TRUE]
             /\ UNCHANGED mw
        ELSE /\ mw' = [mw EXCEPT !.conn = redis_conn(mw)]
             /\ LET seen == [r EXCEPT
                      !.gets = r.gets + 1,
                      !.afterTTL = k \in DOMAIN missStore /\ now >= missStore[k] + mw.ttl,
                      !.sawFirst = IF k \in DOMAIN stored THEN stored[k].first
                                   ELSE NoResponse,
                      !.sawLast = IF k \in DOMAIN stored THEN stored[k].last
                                  ELSE NoResponse,
                      !.getKey = k]
                IN  slots' = [slots EXCEPT ![s] =
                      IF ~ok \/ redis_conn(mw) = None
                      THEN [seen EXCEPT !.pc = failPc, !.error = "cache",
                                        !.getFailed = TRUE,
                                        !.queued = queuedAfterRaise]
                      ELSE IF data # None
                      THEN [seen EXCEPT !.pc = "handler",
                                        !.context = Put(EmptyMap, r.key, pickle_loads(data)),
                                        !.hitBy = stored[k].by,
                                        !.queued = queuedAfterRaise]
                      ELSE [seen EXCEPT !.pc = missPc, !.queued = TRUE]]

\* Mutant of process_request: SimpleIdempotencyMiddleware takes part for POST
\* and DELETE only.
process_request_PostDelete(s, ok) ==
    /\ slots[s].pc = "request"
    /\ IF mw.variant = "simple" /\ slots[s].method \in {"POST", "DELETE"}
       THEN Simple_process_request(s, ok, "resource", "done", FALSE)
       ELSE /\ slots' = [slots EXCEPT ![s].pc = "resource", ![s].queued = TRUE]
            /\ UNCHANGED mw
    /\ UNCHANGED <<cache, now, ticks, started, nextId, stored, missStore>>

\* The framework's first step: the middleware's process_request.
process_request(s, ok) ==
    /\ slots[s].pc = "request"
    /\ IF mw.variant = "simple"
       THEN Simple_process_request(s, ok, "resource", "done", FALSE)
       ELSE /\ slots' = [slots EXCEPT ![s].pc = "resource", ![s].queued = TRUE]
            /\ UNCHANGED mw
    /\ UNCHANGED <<cache, now, ticks, started, nextId,
                   stored, missStore>>

\* Routing, then the middleware's process_resource when a resource was found.
process_resource(s, ok) ==
    /\ slots[s].pc = "resource"
    /\ IF mw.variant = "optin" /\ slots[s].resource # "none"
          /\ Applies(slots[s].method, slots[s].resource)
       THEN Simple_process_request(s, ok, "responder", "response", TRUE)
       ELSE /\ slots' = [slots EXCEPT ![s].pc = "responder"]
            /\ UNCHANGED mw
    /\ UNCHANGED <<cache, now, ticks, started, nextId,
                   stored, missStore>>

\* Mutant of Responder: the short-circuit signal does not stop the dispatch.
Responder_AfterSignal(s) ==
    LET r == slots[s] IN
    /\ r.pc \in {"responder", "handler"}
    /\ slots' = [slots EXCEPT ![s] =
                   [r EXCEPT !.pc = "response",
                             !.resp = RespondWith(r.resource, r.method, nextId),
                             !.succeeded = (r.resource # "none"),
                             !.ran = r.ran + 1]]
    /\ nextId' = IF DrawsUuid(r.resource, r.method) THEN nextId + 1 ELSE nextId
    /\ UNCHANGED <<mw, cache, now, ticks, started, stored, missStore>>

\* The resource's responder runs.
Responder(s) ==
    LET r == slots[s] IN
    /\ r.pc = "responder"
    /\ slots' = [slots EXCEPT ![s] =
                   [r EXCEPT !.pc = "response",
                             !.resp = RespondWith(r.resource, r.method, nextId),
                             !.succeeded = (r.resource # "none"),
                             !.ran = r.ran + 1]]
    /\ nextId' = IF DrawsUuid(r.resource, r.method) THEN nextId + 1 ELSE nextId
    /\ UNCHANGED <<mw, cache, now, ticks, started,
                   stored, missStore>>

\* Mutant of handler: the stashed response is popped but not copied.
handler_NoCopy(s) ==
    LET r == slots[s] IN
    /\ r.pc = "handler"
    /\ slots' = [slots EXCEPT ![s] =
                   [r EXCEPT !.pc = IF r.queued THEN "response" ELSE "done",
                             !.context = EmptyMap,
                             !.replayed = TRUE]]
    /\ UNCHANGED <<mw, cache, now, ticks, started, nextId, stored, missStore>>

\* Mutant of handler: the stashed response is read with [] and left in the
\* request's context.
handler_NoPop(s) ==
    LET r == slots[s] IN
    /\ r.pc = "handler"
    /\ slots' = [slots EXCEPT ![s] =
                   [r EXCEPT !.pc = IF r.queued THEN "response" ELSE "done",
                             !.resp = r.context[r.key],
                             !.replayed = TRUE]]
    /\ UNCHANGED <<mw, cache, now, ticks, started, nextId, stored, missStore>>

\* SimpleIdempotencyMiddleware.handler, the error handler of SentinelException.
handler(s) ==
    LET r == slots[s]
        previous_response == r.context[r.key]
    IN
    /\ r.pc = "handler"
    /\ slots' = [slots EXCEPT ![s] =
                   [r EXCEPT !.pc = IF r.queued THEN "response" ELSE "done",
                             !.context = EmptyMap,
                             !.resp = previous_response,
                             !.replayed = TRUE]]
    /\ UNCHANGED <<mw, cache, now, ticks, started, nextId,
                   stored, missStore>>

\* SimpleIdempotencyMiddleware.process_response (IdempotencyMiddleware's calls it).
process_response(s, ok) ==
    LET r == slots[s]
        k == redis_key(r.method, r.key)
    IN
    /\ r.pc = "response"
    /\ IF ~Truthy(r.key)
       THEN /\ slots' = [slots EXCEPT ![s].pc = "done"]
            /\ UNCHANGED <<mw, cache, stored, missStore>>
       ELSE IF ~Picklable(r.resp)
       THEN /\ slots' = [slots EXCEPT ![s].pc = "done", ![s].error = "pickle"]
            /\ UNCHANGED <<mw, cache, stored, missStore>>
       ELSE IF ~ok \/ redis_conn(mw) = None
       THEN /\ slots' = [slots EXCEPT ![s].pc = "done", ![s].error = "cache",
                                      ![s].sets = r.sets + 1, ![s].setKey = k]
            /\ mw' = [mw EXCEPT !.conn = redis_conn(mw)]
            /\ UNCHANGED <<cache, stored, missStore>>
       ELSE /\ slots' = [slots EXCEPT ![s].pc = "done", ![s].sets = r.sets + 1,
                                      ![s].setKey = k]
            /\ mw' = [mw EXCEPT !.conn = redis_conn(mw)]
            /\ cache' = CacheSetex(cache, k, pickle_dumps(r.resp), mw.ttl, now)
            /\ stored' = Put(stored, k,
                             [by |-> <<r.method, r.key>>,
                              first |-> IF k \in DOMAIN stored THEN stored[k].first
                                        ELSE r.resp,
                              last |-> r.resp])
            /\ missStore' = IF r.ran > 0 THEN Put(missStore, k, now) ELSE missStore
    /\ UNCHANGED <<now, ticks, started, nextId>>

\* The response (or the error) has left; the slot is free again.
Finish(s) ==
    /\ slots[s].pc = "done"
    /\ slots' = [slots EXCEPT ![s] = Idle]
    /\ UNCHANGED <<mw, cache, now, ticks, started, nextId,
                   stored, missStore>>

\* Time passes, by a second or by a whole ttl; expired keys leave the cache.
Tick ==
    \E d \in {1, mw.ttl} :
        /\ mw.state = "ok"
        /\ ticks < MaxTicks
        /\ ticks' = ticks + 1
        /\ now' = now + d
        /\ cache' = Purge(cache, now + d)
        /\ stored' = Restrict(stored, Purge(cache, now + d))
        /\ UNCHANGED <<mw, slots, started, nextId, missStore>>

(***************************************************************************)
(* Inputs.  A constructor call is its arguments (ttl: <<>> when            *)
(* idempotency_ttl is not passed); a request is its method, its            *)
(* Idempotency-Key header and the resource its path routes to.             *)
(***************************************************************************)
ConstructorCalls(variants, urls, connections, ttls) ==
    [variant : variants, url : urls, conn : connections, ttl : ttls]

Requests(methods, headers, resources) ==
    [method : methods, key : headers, resource : resources]

(***************************************************************************)
(* The next-state relation over the given inputs: the constructor calls    *)
(* that may be made, the requests that may arrive, whether a cache call    *)
(* may fail (outcomes), and how many requests the server handles at once.  *)
(***************************************************************************)
NextOver(calls, requests, outcomes, lim) ==
    \/ \E a \in calls : Construct(a.variant, a.url, a.conn, a.ttl)
    \/ \E q \in requests : Start(q.method, q.key, q.resource, lim)
    \/ \E s \in Slots, ok \in outcomes : process_request(s, ok)
    \/ \E s \in Slots, ok \in outcomes : process_resource(s, ok)
    \/ \E s \in Slots : Responder(s)
    \/ \E s \in Slots : handler(s)
    \/ \E s \in Slots, ok \in outcomes : process_response(s, ok)
    \/ \E s \in Slots : Finish(s)
    \/ Tick

(***************************************************************************)
(* Specifications.                                                         *)
(***************************************************************************)
OneCache == ConstructorCalls({"simple", "optin"}, {None}, {"connection"}, {<<GivenTTL>>})

\* Either middleware, one request at a time, any method on any resource,
\* the cache may fail.
Next ==
    NextOver(OneCache,
             Requests(Methods, {"A"},
                      {"none", "vanilla", "postonly", "deleteonly", "streamer"}),
             BOOLEAN, 1)

Spec == Init /\ [][Next]_vars

\* SimpleIdempotencyMiddleware, one request at a time (the tests' client).
NextSeq ==
    NextOver(ConstructorCalls({"simple"}, {None}, {"connection"}, {<<GivenTTL>>}),
             Requests({"POST", "GET"}, {"A", "B"}, {"none", "vanilla"}),
             BOOLEAN, 1)

SpecSeq == Init /\ [][NextSeq]_vars

\* Either middleware, one request at a time, two keys on two methods.
NextKeys ==
    NextOver(OneCache,
             Requests({"POST", "DELETE"}, {"A", "B"}, {"postonly", "deleteonly"}),
             BOOLEAN, 1)

SpecKeys == Init /\ [][NextKeys]_vars

\* Either middleware, concurrent requests with and without a key.
NextNoKey ==
    NextOver(OneCache, Requests({"POST"}, {None, "", "A"}, {"postonly"}),
             {TRUE}, MaxInFlight)

SpecNoKey == Init /\ [][NextNoKey]_vars

\* Either middleware, concurrent requests with the same method and key.
NextRace ==
    NextOver(OneCache, Requests({"POST"}, {"A"}, {"postonly"}), {TRUE}, MaxInFlight)

SpecRace == Init /\ [][NextRace]_vars

\* Either middleware, one request at a time, a cache that never fails.
NextTTL ==
    NextOver(OneCache, Requests({"POST", "DELETE"}, {"A"}, {"postonly", "vanilla"}),
             {TRUE}, 1)

SpecTTL == Init /\ [][NextTTL]_vars

\* Every way of calling the constructor.
NextConfig ==
    NextOver(ConstructorCalls({"simple", "optin"}, {None, "redis://cache"},
                              {None, "connection"}, {<<>>, <<GivenTTL>>}),
             Requests({"POST"}, {"A"}, {"postonly"}),
             BOOLEAN, 1)

SpecConfig == Init /\ [][NextConfig]_vars

\* Either middleware, one request at a time, on resources whose flags are
\* missing, True, or true without being True, and on no resource at all.
NextFlags ==
    NextOver(OneCache,
             Requests({"POST", "DELETE"}, {"A"},
                      {"none", "vanilla", "truthy", "postonly"}),
             BOOLEAN, 1)

SpecFlags == Init /\ [][NextFlags]_vars

(***************************************************************************)
(* Properties.                                                             *)
(***************************************************************************)
\* A request that has left without an error.
Answered(r) == r.pc = "done" /\ r.error = "none"

\* C1 (replay correctness, sequential requests, SimpleIdempotencyMiddleware):
\* a request with a non-empty key that arrives while the entry its first
\* (method, key) request stored is still in the cache, and completes, is
\* answered with exactly the first response (status, headers, body), and its
\* responder is not run.
C1_ReplayEqualsFirst ==
    \A s \in Slots :
        LET r == slots[s] IN
        (mw.variant = "simple" /\ Answered(r) /\ Truthy(r.key)
            /\ r.sawFirst # NoResponse)
        => (r.resp = r.sawFirst /\ r.ran = 0 /\ r.replayed)

\* C1's case: the third request of a run replays a response with a trans_id.
C1_Witness ==
    \E s \in Slots :
        LET r == slots[s] IN
        /\ mw.variant = "simple" /\ Answered(r) /\ started = 3
        /\ r.replayed /\ r.ran = 0
        /\ r.resp.trans_id > 0 /\ r.resp = r.sawFirst

\* C2 (key isolation): a request is only ever handed an entry that a request
\* with the same method and the same Idempotency-Key value stored; a keyed
\* request that is not handed one runs its responder.
C2_KeyIsolation ==
    \A s \in Slots :
        LET r == slots[s] IN
        /\ r.hitBy # <<>> => r.hitBy = <<r.method, r.key>>
        /\ (r.replayed \/ r.context # EmptyMap) => r.hitBy = <<r.method, r.key>>
        /\ (Answered(r) /\ ~r.replayed) => r.ran = 1

\* C2's case: a POST with key B looks up, misses and runs its responder while
\* the entry of a POST with key A is in the cache.
C2_Witness ==
    \E s \in Slots :
        LET r == slots[s] IN
        /\ Answered(r) /\ r.method = "POST" /\ r.key = "B"
        /\ r.gets = 1 /\ r.ran = 1 /\ ~r.replayed
        /\ "FALCON_REQUEST_POST_A" \in DOMAIN cache

\* C3 (no-key pass-through): a request whose Idempotency-Key is absent or
\* empty issues no cache get and no cache set, is never short-circuited, runs
\* its responder, and no step of it changes the cache.
C3_NoKeyState ==
    \A s \in Slots :
        LET r == slots[s] IN
        (r.pc # "idle" /\ (r.key = None \/ r.key = ""))
        => /\ r.gets = 0 /\ r.sets = 0
           /\ ~r.replayed /\ r.pc # "handler" /\ r.context = EmptyMap
           /\ r.error = "none"
           /\ r.pc \in {"response", "done"} => r.ran = 1

\* No step of a request without a key changes the cache.
C3_NoKeyStep ==
    \A s \in Slots :
        (slots[s].pc # "idle" /\ (slots[s].key = None \/ slots[s].key = "")
            /\ slots'[s] # slots[s])
        => cache' = cache

\* C3 (no-key pass-through): the state part holds always and the step part
\* holds of every step.
C3_NoKeyPassThrough == []C3_NoKeyState /\ [][C3_NoKeyStep]_vars

\* C3's case: a request with an empty key has run its responder and left
\* while the cache holds an entry, under the opt-in middleware.
C3_Witness ==
    \E s \in Slots :
        LET r == slots[s] IN
        /\ mw.variant = "optin" /\ Answered(r) /\ r.key = "" /\ r.ran = 1
        /\ cache # EmptyMap

\* C4 (TTL expiry), as claimed: a request that looks up (method, key) when the
\* TTL has elapsed since a responder's output was last stored for (method,
\* key) misses the cache and runs its responder, whatever same-key requests
\* came in between.
C4_FreshAfterTTL ==
    \A s \in Slots :
        LET r == slots[s] IN
        (Answered(r) /\ r.afterTTL) => (~r.replayed /\ r.ran = 1)

\* The scope of the opt-in middleware as the claims state it.
InScope(r) ==
    /\ Truthy(r.key)
    /\ r.resource # "none"
    /\ \/ r.method = "POST" /\ idempotent_post(r.resource) = "True"
       \/ r.method = "DELETE" /\ idempotent_delete(r.resource) = "True"

\* C5 (opt-in scope decides replay): under IdempotencyMiddleware a request is
\* short-circuited and replayed only if it has a non-empty key and its method
\* is POST (DELETE) on a resource whose idempotent_post (idempotent_delete)
\* is True; every other request that is answered has run its responder.
C5_OptInScope ==
    \A s \in Slots :
        LET r == slots[s] IN
        mw.variant = "optin"
        => /\ (r.replayed \/ r.pc = "handler" \/ r.context # EmptyMap) => InScope(r)
           /\ (Answered(r) /\ ~InScope(r)) => (r.ran = 1 /\ ~r.replayed)

\* C5's case: a DELETE on the POST-only resource runs its responder although
\* the cache holds an entry for its method and key.
C5_Witness ==
    \E s \in Slots :
        LET r == slots[s] IN
        /\ mw.variant = "optin" /\ Answered(r)
        /\ r.method = "DELETE" /\ r.resource = "postonly" /\ r.key = "A"
        /\ r.ran = 1 /\ ~r.replayed
        /\ "FALCON_REQUEST_DELETE_A" \in DOMAIN cache
        /\ started > 1

\* C6 (out-of-scope requests skip the cache), as claimed: under
\* IdempotencyMiddleware a request out of scope issues neither a cache get
\* nor a cache set.
C6_OutOfScopeSkipsCache ==
    \A s \in Slots :
        LET r == slots[s] IN
        (mw.variant = "optin" /\ r.pc # "idle" /\ ~InScope(r))
        => (r.gets = 0 /\ r.sets = 0)

\* A step of slot s.
StepOf(s) ==
    \/ \E ok \in BOOLEAN : process_request(s, ok)
    \/ \E ok \in BOOLEAN : process_resource(s, ok)
    \/ Responder(s)
    \/ handler(s)
    \/ \E ok \in BOOLEAN : process_response(s, ok)
    \/ Finish(s)

\* C7 (race between concurrent first requests): no request in flight ever
\* waits for another (its next step is always enabled), and every entry of
\* the cache is the snapshot of the response stored last under its key.
C7_NoLockLastStoreWins ==
    /\ \A s \in InFlight : ENABLED StepOf(s)
    /\ \A k \in DOMAIN cache :
          /\ k \in DOMAIN stored
          /\ cache[k].data = pickle_dumps(stored[k].last)

\* C7's case: two requests with the same method and key have both missed,
\* both run the responder and both stored; the entry is the second store's.
C7_Witness ==
    /\ \A s \in {1, 2} :
          /\ slots[s].pc = "done" /\ slots[s].error = "none"
          /\ slots[s].method = "POST" /\ slots[s].key = "A"
          /\ slots[s].ran = 1 /\ slots[s].sets = 1 /\ ~slots[s].replayed
    /\ slots[1].resp # slots[2].resp
    /\ "FALCON_REQUEST_POST_A" \in DOMAIN cache
    /\ stored["FALCON_REQUEST_POST_A"].last # stored["FALCON_REQUEST_POST_A"].first
    /\ cache["FALCON_REQUEST_POST_A"].data
          = pickle_dumps(stored["FALCON_REQUEST_POST_A"].last)

\* C8 (snapshot encoding failure is contained), as claimed: when the response
\* of a keyed request's responder cannot be pickled, the request still leaves
\* without an error and nothing is stored.
C8_EncodingFailureContained ==
    \A s \in Slots :
        LET r == slots[s] IN
        (r.pc = "done" /\ r.ran = 1 /\ Truthy(r.key) /\ ~Picklable(r.resp))
        => (r.error = "none" /\ r.sets = 0)

\* C9 (cache failure propagates, no retry), as claimed: a request issues each
\* cache call at most once; a request whose get failed leaves with the error,
\* is not replayed, and issues no set.
C9_CacheFailurePropagates ==
    \A s \in Slots :
        LET r == slots[s] IN
        /\ r.gets <= 1 /\ r.sets <= 1
        /\ r.getFailed => (~r.replayed /\ r.pc # "handler" /\ r.sets = 0)
        /\ (r.getFailed /\ r.pc = "done") => r.error # "none"

\* C10 (configuration check at construction): the constructor fails exactly
\* when neither redis_url nor redis_connection is given; a request is only
\* ever handled by a middleware that was given one; the ttl is 3600 when
\* idempotency_ttl is not given and the given value otherwise.
C10_ConstructionCheck ==
    /\ mw.state = "error" => (mw.url = None /\ mw.conn = None)
    /\ mw.state = "ok" => (mw.url # None \/ mw.conn # None)
    /\ (started > 0 \/ InFlight # {}) => (mw.state = "ok" /\ redis_conn(mw) # None)
    /\ (mw.state = "ok" /\ mw.ttl_arg = <<>>) => mw.ttl = 3600
    /\ (mw.state = "ok" /\ mw.ttl_arg # <<>>) => mw.ttl = mw.ttl_arg[1]

\* C10's case: a constructor call with neither argument has failed, and no
\* request was handled.
C10_Witness ==
    /\ mw.state = "error" /\ mw.url = None /\ mw.conn = None
    /\ mw.ttl_arg = <<>>
    /\ started = 0 /\ InFlight = {}

\* C11 (the post-handler phase is a no-op for a replayed request), as
\* claimed: a request that was short-circuited and replayed issues no cache
\* set, so the entry of its key keeps its payload and its expiry.
C11_ReplayWritesNothing ==
    \A s \in Slots :
        slots[s].replayed => slots[s].sets = 0

\* C12 (a snapshot is stored only for a successful handler run), as claimed:
\* a request stores a response only when its responder completed normally
\* (request_succeeded is true); otherwise process_response writes nothing.
C12_StoreOnlyOnSuccess ==
    \A s \in Slots :
        LET r == slots[s] IN
        (mw.variant = "simple" /\ r.sets > 0 /\ r.error = "none") => r.succeeded

\* C13 (request context stash): a request's context holds a stashed snapshot
\* exactly between the short-circuit being raised and the replay consuming
\* it (the request waits for the error handler); the stash is then the one
\* entry keyed by the request's Idempotency-Key, holding the snapshot found.
\* A request that missed or carries no key has none, and none is left when
\* the response leaves.
C13_StashOnlyWhileShortCircuited ==
    \A s \in Slots :
        LET r == slots[s] IN
        /\ r.context # EmptyMap <=> r.pc = "handler"
        /\ r.pc = "handler"
           => /\ DOMAIN r.context = {r.key}
              /\ Truthy(r.key)
              /\ r.context[r.key] = r.sawLast
              /\ r.hitBy # <<>>
        /\ (r.hitBy = <<>> \/ ~Truthy(r.key)) => r.context = EmptyMap

\* C13's case: one request is short-circuited and holds its stash while
\* another has been replayed and left with an empty context.
C13_Witness ==
    \E s, t \in Slots :
        /\ slots[s].pc = "handler"
        /\ DOMAIN slots[s].context = {"A"}
        /\ slots[s].context["A"].trans_id > 0
        /\ slots[t].pc = "done" /\ slots[t].replayed
        /\ slots[t].context = EmptyMap

Verbs == {"GET", "HEAD", "POST", "PUT", "DELETE", "PATCH", "OPTIONS"}

\* Non-empty Idempotency-Key values, some differing in case only and some
\* that contain the key's separator or a verb.
KeyValues == {"A", "a", "B", "A_B", "POST_A", "_"}

\* redis_key over every pair of (verb, header value): equal keys exactly for
\* equal methods and equal header values.
KeyInjectiveOverVerbs ==
    /\ \A m1 \in Verbs, m2 \in Verbs, h1 \in KeyValues, h2 \in KeyValues :
          redis_key(m1, h1) = redis_key(m2, h2) <=> (m1 = m2 /\ h1 = h2)
    /\ \A h \in KeyValues : redis_key("POST", h) # redis_key("DELETE", h)

\* C16 (cache key derivation is injective and deterministic): over the HTTP
\* verbs and non-empty header values, two derived keys are equal if and only
\* if the methods are equal and the header values are equal, case included;
\* the same value under POST and under DELETE gives two keys.  In a run, each
\* entry sits under the key derived from the request that stored it, a lookup
\* addresses an entry exactly when that request had the same method and
\* header value, and a request writes under the key it read.
C16_KeyInjective ==
    /\ KeyInjectiveOverVerbs
    /\ \A k \in DOMAIN stored : k = redis_key(stored[k].by[1], stored[k].by[2])
    /\ \A s \in Slots :
          LET r == slots[s] IN
          /\ r.getKey # None
             => /\ r.getKey = redis_key(r.method, r.key)
                /\ \A k \in DOMAIN stored :
                      r.getKey = k <=> stored[k].by = <<r.method, r.key>>
          /\ (r.getKey # None /\ r.setKey # None) => r.setKey = r.getKey

\* C16's case: a POST with key A has read and written FALCON_REQUEST_POST_A
\* while the entries of DELETE with key A and of POST with key B are in the
\* cache.
C16_Witness ==
    \E s \in Slots :
        LET r == slots[s] IN
        /\ Answered(r) /\ r.method = "POST" /\ r.key = "A"
        /\ r.getKey = "FALCON_REQUEST_POST_A" /\ r.setKey = "FALCON_REQUEST_POST_A"
        /\ DOMAIN cache = {"FALCON_REQUEST_POST_A", "FALCON_REQUEST_DELETE_A",
                           "FALCON_REQUEST_POST_B"}

\* Responses a responder can leave: a status, a trans_id header or none, a
\* body, and possibly an open stream.
Responses ==
    [status : {200, 404, 500}, trans_id : 0..2, body : {"", "hello"},
     stream : BOOLEAN]

\* pickle.loads(pickle.dumps(R)) over every response that can be pickled.
RoundTripOverResponses ==
    \A R \in Responses :
        Picklable(R)
        => /\ pickle_loads(pickle_dumps(R)).status = R.status
           /\ pickle_loads(pickle_dumps(R)).trans_id = R.trans_id
           /\ pickle_loads(pickle_dumps(R)).body = R.body

C19_ResponderXorReplay ==
    \A s \in Slots :
        LET r == slots[s] IN
        /\ r.ran <= 1
        /\ Answered(r)
           => \/ r.ran = 1 /\ ~r.replayed /\ r.hitBy = <<>>
              \/ r.ran = 0 /\ r.replayed /\ r.hitBy # <<>>
        /\ (r.pc = "handler" \/ r.replayed \/ r.hitBy # <<>>)
           => /\ r.hitBy = <<r.method, r.key>>
              /\ r.gets = 1 /\ ~r.getFailed
              /\ r.sawLast # NoResponse
              /\ r.ran = 0
        /\ r.pc = "responder" => (r.hitBy = <<>> /\ r.ran = 0)

\* C19's case: the third request of a run, a DELETE with key B, was
\* short-circuited by the entry of its own method and key and has left
\* replayed, its responder never run, while the cache also holds the entry
\* of POST with key B.
C19_Witness ==
    \E s \in Slots :
        LET r == slots[s] IN
        /\ Answered(r) /\ started = 3
        /\ r.method = "DELETE" /\ r.key = "B"
        /\ r.hitBy = <<"DELETE", "B">>
        /\ r.replayed /\ r.ran = 0
        /\ DOMAIN cache = {"FALCON_REQUEST_DELETE_B", "FALCON_REQUEST_POST_B"}

====
